---- MODULE Spec2Model ----
(***************************************************************************)
(* A model of juststrokes-rust (src/juststrokes-rust/src/lib.rs): the      *)
(* similarity scorer, the top-K matcher with its stroke preprocessing, the *)
(* resampler and the bounding-box normaliser; and of the socket service    *)
(* that answers request lines with the matcher (socket_service.rs).        *)
(*                                                                         *)
(* Numbers.  The program computes in f64.  Geometry values (coordinates,   *)
(* distances, box corners, min_width) are modelled as exact fixed-point    *)
(* numbers: the integer v stands for the real v / Unit.  Feature-vector    *)
(* values (the 10 values of a StrokeProcessed) are integer-valued in the   *)
(* program and are modelled by that integer.  Scores are modelled in       *)
(* units of 1 / NUM_POSSIBLE_ENCODED_VALUE, which makes the division by    *)
(* 256 in score_similarity exact.                                          *)
(***************************************************************************)
EXTENDS Integers, Sequences, FiniteSets, TLC

VARIABLES
    \* ---- Matcher (lib.rs 267-362) -------------------------------------
    medians,              \* Matcher.medians: sequence of [id, vecs]
    params,               \* Matcher.params: [max_ratio, min_width]
    op,                   \* which entry point is running
    strokes,              \* argument of match_strokes (raw strokes)
    strokes_processed,    \* argument of match_preprocessed / strokes2
    how_many_candidates,  \* argument k
    candidates,           \* local Vec<Ideograph>
    scores,               \* local Vec<f64>, parallel to candidates
    idx,                  \* position of the `for candidate in &self.medians` loop
    m_pc,                 \* "start", "scan", "done", "panic"
    \* history variables (not program state): what the run has done so far
    scored,               \* database positions passed to score_similarity
    cand_pos,             \* database position of each element of candidates
    preprocess_calls,     \* number of calls of preprocess_strokes
    boxed,                \* whether preprocess_strokes has computed a box
    \* ---- preprocess_strokes (lib.rs 174-212), called by the Matcher -----
    aabb_after,           \* local aabb_after
    \* ---- process_stroke (lib.rs 90-128) --------------------------------
    rs_stroke,            \* argument stroke
    rs_n,                 \* argument how_many_points_to_sample
    stroke_length,        \* local stroke_length
    rs_i,                 \* index i of the sampling loop
    rs_s,                 \* local s of the current iteration
    rs_walk,              \* locals [h, point_candidate, u] and a panic flag
    result_stroke,        \* local result_stroke
    r_pc,                 \* "start", "sample", "walk", "done", "panic"
    \* ---- normalize_aabb (lib.rs 132-170) -------------------------------
    aabb,                 \* argument aabb (mut): <<min corner, max corner>>
    max_ratio,            \* argument max_ratio, a rational [num, den], den > 0
    min_width,            \* argument min_width
    e,                    \* local e
    b_pc,                 \* "start", "minsize", "ratio", "done", "panic"
    aabb_arg,             \* history variable: aabb as it was passed
    \* ---- score_similarity (lib.rs 217-248) -----------------------------
    sc_input,             \* argument input
    sc_reference,         \* argument reference
    sc_i,                 \* index i of the stroke loop
    sc_score,             \* local score, in units of 1/256
    sc_angle,             \* local angle_similarity of the last iteration
    s_pc,                 \* "loop", "done"
    \* ---- SocketService (socket_service.rs 23-107) ----------------------
    pending,              \* connections waiting in listener.incoming(): their request lines
    connected,            \* history variable: number of connections made so far
    line,                 \* handle_client: local line
    response,             \* what handle_client has written to the stream
    result,               \* what handle_client returned: "none", "Ok", "Err"
    k_pc,                 \* "accept", "handle", "match", "returned", "crashed"
    log                   \* history variable: [line, response, result] of each handled connection

mvars == <<medians, params, op, strokes, strokes_processed, how_many_candidates,
           candidates, scores, idx, m_pc, scored, cand_pos, preprocess_calls,
           boxed, aabb_after>>

rvars == <<rs_stroke, rs_n, stroke_length, rs_i, rs_s, rs_walk, result_stroke, r_pc>>

bvars == <<aabb, max_ratio, min_width, e, b_pc, aabb_arg>>

svars == <<sc_input, sc_reference, sc_i, sc_score, sc_angle, s_pc>>

kvars == <<pending, connected, line, response, result, k_pc, log>>

vars == <<mvars, rvars, bvars, svars, kvars>>

----------------------------------------------------------------------------
(* Program constants *)

NUM_POSSIBLE_ENCODED_VALUE == 256
NUM_ENCODED_POINTS == 4
MAGIC_PER_STROKE_WEIGHT == 4

(* Fixed-point denominator of geometry values: a multiple of 2 (half-unit  *)
(* inputs, so that rounding is visible), of 2 * (N - 1) for the sample     *)
(* counts N <= 5, and of 5 (the 3-4-5 segments), so that the walk of       *)
(* process_stroke is exact on every stroke of half-unit points whose       *)
(* segment lengths are rational.                                           *)
Unit == 2 * 2 * 2 * 3 * 5

----------------------------------------------------------------------------
(* Integer helpers *)

Abs(x) == IF x < 0 THEN -x ELSE x
Min(a, b) == IF a < b THEN a ELSE b
Max(a, b) == IF a > b THEN a ELSE b
Sign(x) == IF x < 0 THEN -1 ELSE 1

\* floor and ceiling of the rational n / d, d > 0
FloorDiv(n, d) == n \div d
CeilDiv(n, d) == -((-n) \div d)

\* f64::round of the rational n / d, d > 0: nearest integer, halves away from zero
RoundDiv(n, d) == Sign(n) * ((2 * Abs(n) + d) \div (2 * d))

SetMin(S) == CHOOSE x \in S : \A y \in S : x <= y

RECURSIVE SeqSum(_)
SeqSum(s) == IF s = <<>> THEN 0 ELSE Head(s) + SeqSum(Tail(s))

\* Vec::insert(f, x) with 0-based f
InsertAt(s, f, x) == SubSeq(s, 1, f) \o <<x>> \o SubSeq(s, f + 1, Len(s))
\* Vec::pop
Pop(s) == SubSeq(s, 1, Len(s) - 1)

----------------------------------------------------------------------------
(* score_similarity, lib.rs 217-248 *)

\* faulty variant: no wraparound, the plain difference of the codes
angle_similarity_linear(a, b) == Abs(a - b)

\* lines 236-237: c = |a - b|; angle_similarity = min(c, 256 - c)
angle_similarity(a, b) ==
    LET c == Abs(a - b) IN Min(c, NUM_POSSIBLE_ENCODED_VALUE - c)

\* lines 228-232: the 8 coordinate penalties of one stroke pair
coord_penalty(input_stroke, ref_stroke) ==
    SeqSum([s \in 1..NUM_ENCODED_POINTS |->
              Abs(input_stroke[2 * s - 1] - ref_stroke[2 * s - 1])
            + Abs(input_stroke[2 * s] - ref_stroke[2 * s])])

\* faulty variant: the difference of the length codes instead of their sum
angle_penalty_lendiff(input_stroke, ref_stroke) ==
    LET angle_idx == 2 * NUM_ENCODED_POINTS + 1
        length_idx == angle_idx + 1
        lengthy256 == input_stroke[length_idx] - ref_stroke[length_idx]
    IN  MAGIC_PER_STROKE_WEIGHT * NUM_ENCODED_POINTS * lengthy256
          * angle_similarity(input_stroke[angle_idx], ref_stroke[angle_idx])

\* lines 241-244, in units of 1/256: lengthy = (la + lb) / 256, and the
\* penalty is 4 * 4 * lengthy * angle_similarity
angle_penalty(input_stroke, ref_stroke) ==
    LET angle_idx == 2 * NUM_ENCODED_POINTS + 1
        length_idx == angle_idx + 1
        lengthy256 == input_stroke[length_idx] + ref_stroke[length_idx]
    IN  MAGIC_PER_STROKE_WEIGHT * NUM_ENCODED_POINTS * lengthy256
          * angle_similarity(input_stroke[angle_idx], ref_stroke[angle_idx])

\* faulty variant: the penalties are added to the score instead of subtracted
stroke_score_added(input_stroke, ref_stroke) ==
    NUM_POSSIBLE_ENCODED_VALUE * coord_penalty(input_stroke, ref_stroke)
      + angle_penalty(input_stroke, ref_stroke)

\* the contribution of stroke pair i to the score, in units of 1/256
stroke_score(input_stroke, ref_stroke) ==
    0 - NUM_POSSIBLE_ENCODED_VALUE * coord_penalty(input_stroke, ref_stroke)
      - angle_penalty(input_stroke, ref_stroke)

\* score in units of 1/256; the loop runs over i in 0..input.len()
score_similarity(input, reference) ==
    SeqSum([i \in 1..Len(input) |-> stroke_score(input[i], reference[i])])

----------------------------------------------------------------------------
(* VectorFunctions, lib.rs 30-52.  A Point is <<x, y>>, fixed-point. *)

subtract(p0, p1) == <<p0[1] - p1[1], p0[2] - p1[2]>>
\* in units of 1 / Unit^2
norm2(p) == p[1] * p[1] + p[2] * p[2]
distance2(p0, p1) == norm2(subtract(p0, p1))
\* f64::round on both coordinates
round(p) == <<Unit * RoundDiv(p[1], Unit), Unit * RoundDiv(p[2], Unit)>>

\* f64::sqrt of a value in units of 1 / Unit^2, in units of 1 / Unit: the
\* integer square root, which is the exact root on the inputs of the model
\* (IsSquare holds of every distance2 the runs take the root of).
isqrt_between(n, lo, hi) ==
    LET between[l \in Nat, h \in Nat] ==
            IF l >= h THEN l
            ELSE LET mid == (l + h + 1) \div 2
                 IN  IF mid * mid <= n THEN between[mid, h] ELSE between[l, mid - 1]
    IN  between[lo, hi]
sqrt(n) == isqrt_between(n, 0, 46340)
IsSquare(n) == sqrt(n) * sqrt(n) = n

----------------------------------------------------------------------------
(* process_stroke, lib.rs 90-128 *)

\* lines 92-97: the sum of the segment lengths
path_length(stroke) ==
    SeqSum([i \in 1..(Len(stroke) - 1) |-> sqrt(distance2(stroke[i], stroke[i + 1]))])

\* line 105: s = (i * stroke_length) / (N - 1)
sample_position(i, length, n) == (i * length) \div (n - 1)

\* lines 99-101: h = 0, point_candidate = stroke[0], u = 0
walk_start(stroke) == [h |-> 0, point_candidate |-> stroke[1], u |-> 0, panic |-> FALSE]

\* lines 115-119: f = (s - u) / c and (1 - f) * p + f * q, as one exact
\* rational: ((c - (s - u)) * p + (s - u) * q) / c
interpolate(p, q, s, u, c) ==
    << ((c - (s - u)) * p[1] + (s - u) * q[1]) \div c,
       ((c - (s - u)) * p[2] + (s - u) * q[2]) \div c >>

\* faulty variant: the advance to the next segment keeps h and u
walk_step_stay(stroke, s, w) ==
    IF w.h + 2 > Len(stroke)
    THEN [w EXCEPT !.panic = TRUE]
    ELSE LET c == sqrt(distance2(w.point_candidate, stroke[w.h + 2]))
         IN  IF s > w.u + c
             THEN [w EXCEPT !.point_candidate = stroke[w.h + 2]]
             ELSE [w EXCEPT !.point_candidate =
                               interpolate(w.point_candidate, stroke[w.h + 2], s, w.u, c),
                            !.u = s]

\* lines 107-121: one iteration of `while s > u`; stroke[h + 1] (0-based) is
\* an index panic when h + 1 is not less than stroke.len()
walk_step(stroke, s, w) ==
    IF w.h + 2 > Len(stroke)
    THEN [w EXCEPT !.panic = TRUE]
    ELSE LET c == sqrt(distance2(w.point_candidate, stroke[w.h + 2]))
         IN  IF s > w.u + c
             THEN [w EXCEPT !.h = w.h + 1,
                            !.point_candidate = stroke[w.h + 2],
                            !.u = w.u + c]
             ELSE [w EXCEPT !.point_candidate =
                               interpolate(w.point_candidate, stroke[w.h + 2], s, w.u, c),
                            !.u = s]

\* line 126: the last point of the input
last_point(stroke) == stroke[Len(stroke)]

\* process_stroke as a function (the same steps, run to the end), for its
\* callers.  The result is <<>> when the call panics.
RECURSIVE walk_to(_, _, _)
walk_to(stroke, s, w) ==
    IF w.panic \/ ~(s > w.u) THEN w ELSE walk_to(stroke, s, walk_step(stroke, s, w))

RECURSIVE sample_from(_, _, _, _, _, _)
sample_from(stroke, n, length, i, w, out) ==
    IF w.panic THEN <<>>
    ELSE IF i = n - 1 THEN Append(out, last_point(stroke))
    ELSE LET w2 == walk_to(stroke, sample_position(i, length, n), w)
         IN  IF w2.panic THEN <<>>
             ELSE sample_from(stroke, n, length, i + 1, w2,
                              Append(out, round(w2.point_candidate)))

process_stroke(stroke, n) ==
    IF stroke = <<>> THEN <<>>
    ELSE sample_from(stroke, n, path_length(stroke), 0, walk_start(stroke), <<>>)

----------------------------------------------------------------------------
(* normalize_aabb, lib.rs 132-170.  An AABB is <<min corner, max corner>>. *)

\* lines 133-134
round_aabb(box) == <<round(box[1]), round(box[2])>>

\* lines 137-139: the panic condition
invalid_extent(ext) == ext[1] < 0 \/ ext[2] < 0

\* faulty variant: floor for ceil
min_size_margin_floor(minw, extent) == Unit * FloorDiv(minw - extent, 2 * Unit)

\* lines 143 / 148: ceil((min_width - extent) / 2), a whole number
min_size_margin(minw, extent) == Unit * CeilDiv(minw - extent, 2 * Unit)

\* widen axis a (1 = x, 2 = y) of box by i on each side
widen(box, a, i) ==
    << [box[1] EXCEPT ![a] = box[1][a] - i], [box[2] EXCEPT ![a] = box[2][a] + i] >>

\* lines 142-151: the minimum-size pass, on the extents ext of line 136
min_size_pass(box, ext, minw) ==
    LET bx == IF ext[1] < minw THEN widen(box, 1, min_size_margin(minw, ext[1])) ELSE box
    IN  IF ext[2] < minw THEN widen(bx, 2, min_size_margin(minw, ext[2])) ELSE bx

\* faulty variant: floor for ceil
ratio_margin_floor(long, short, ratio) ==
    Unit * FloorDiv(long * ratio.den - short * ratio.num, 2 * ratio.num * Unit)

\* lines 158 / 163: ceil((long / max_ratio - short) / 2), a whole number
ratio_margin(long, short, ratio) ==
    Unit * CeilDiv(long * ratio.den - short * ratio.num, 2 * ratio.num * Unit)

\* lines 154-167: the aspect-ratio pass
ratio_pass(box, ratio) ==
    IF ratio.num > 0
    THEN LET ext == subtract(box[2], box[1])
         IN  IF ext[1] * ratio.num < ext[2] * ratio.den
             THEN widen(box, 1, ratio_margin(ext[2], ext[1], ratio))
             ELSE IF ext[2] * ratio.num < ext[1] * ratio.den
             THEN widen(box, 2, ratio_margin(ext[1], ext[2], ratio))
             ELSE box
    ELSE box

\* normalize_aabb as a function, for its callers: whether the call panics
\* (line 137), and its result when it does not
normalize_aabb_panics(box) ==
    invalid_extent(subtract(round_aabb(box)[2], round_aabb(box)[1]))

normalize_aabb(box, ratio, minw) ==
    LET rounded == round_aabb(box)
        ext == subtract(rounded[2], rounded[1])
    IN  ratio_pass(min_size_pass(rounded, ext, minw), ratio)

----------------------------------------------------------------------------
(* get_aabb, lib.rs 72-86, and the projector, lib.rs 56-69 *)

SetMax(S) == CHOOSE x \in S : \A y \in S : x >= y
Coords(strks, a) ==
    UNION { { strks[i][j][a] : j \in 1..Len(strks[i]) } : i \in 1..Len(strks) }

\* the componentwise minimum and maximum of all points (of at least one point)
get_aabb(strks) ==
    << <<SetMin(Coords(strks, 1)), SetMin(Coords(strks, 2))>>,
       <<SetMax(Coords(strks, 1)), SetMax(Coords(strks, 2))>> >>

\* lines 57-59 and 65-66, one axis: round(diffratio * (x - aabb0_min) + aabb1_min)
\* with diffratio = diff1 / diff0, as one exact rational.  On a zero source
\* extent diffratio is infinite and the result is not a number.
project_axis(diff0, diff1, min0, min1, x) ==
    IF diff0 = 0 THEN "nan"
    ELSE Unit * RoundDiv(Sign(diff0) * (diff1 * (x - min0) + min1 * diff0),
                         Abs(diff0) * Unit)

\* the closure returned by create_normalized_project_function(aabb0, aabb1)
project(aabb0, aabb1, point) ==
    LET diff0 == subtract(aabb0[2], aabb0[1])
        diff1 == subtract(aabb1[2], aabb1[1])
    IN  << project_axis(diff0[1], diff1[1], aabb0[1][1], aabb1[1][1], point[1]),
           project_axis(diff0[2], diff1[2], aabb0[1][2], aabb1[1][2], point[2]) >>

----------------------------------------------------------------------------
(* preprocess_strokes, lib.rs 174-212 *)

\* The directions at the angles (j + 1/2) * pi / 128, j = 0..63, as
\* <<cos, sin>> times 10^6: the directions at which the angle code of lines
\* 198-200 changes from j to j + 1.
CodeBoundaries ==
    << <<999925, 12272>>, <<999322, 36807>>, <<998118, 61321>>, <<996313, 85797>>,
       <<993907, 110222>>, <<990903, 134581>>, <<987301, 158858>>, <<983105, 183040>>,
       <<978317, 207111>>, <<972940, 231058>>, <<966976, 254866>>, <<960431, 278520>>,
       <<953306, 302006>>, <<945607, 325310>>, <<937339, 348419>>, <<928506, 371317>>,
       <<919114, 393992>>, <<909168, 416430>>, <<898674, 438616>>, <<887640, 460539>>,
       <<876070, 482184>>, <<863973, 503538>>, <<851355, 524590>>, <<838225, 545325>>,
       <<824589, 565732>>, <<810457, 585798>>, <<795837, 605511>>, <<780737, 624859>>,
       <<765167, 643832>>, <<749136, 662416>>, <<732654, 680601>>, <<715731, 698376>>,
       <<698376, 715731>>, <<680601, 732654>>, <<662416, 749136>>, <<643832, 765167>>,
       <<624859, 780737>>, <<605511, 795837>>, <<585798, 810457>>, <<565732, 824589>>,
       <<545325, 838225>>, <<524590, 851355>>, <<503538, 863973>>, <<482184, 876070>>,
       <<460539, 887640>>, <<438616, 898674>>, <<416430, 909168>>, <<393992, 919114>>,
       <<371317, 928506>>, <<348419, 937339>>, <<325310, 945607>>, <<302006, 953306>>,
       <<278520, 960431>>, <<254866, 966976>>, <<231058, 972940>>, <<207111, 978317>>,
       <<183040, 983105>>, <<158858, 987301>>, <<134581, 990903>>, <<110222, 993907>>,
       <<85797, 996313>>, <<61321, 998118>>, <<36807, 999322>>, <<12272, 999925>> >>

\* the direction at the angle (j + 1/2) * pi / 128 for j in 0..255
code_boundary(j) ==
    LET k == j % 128
        b == IF k < 64 THEN CodeBoundaries[k + 1]
             ELSE <<0 - CodeBoundaries[128 - k][1], CodeBoundaries[128 - k][2]>>
    IN  IF j < 128 THEN b ELSE <<0 - b[1], 0 - b[2]>>

\* lines 198-200: round((atan2(y, x) + PI) * 256 / (2 * PI)) as i32 % 256 for
\* a span <<x, y>> of whole numbers.  atan2 + PI is the polar angle of the
\* opposite vector w, in (0, 2 PI]; the rounded quotient is the number of
\* boundaries not beyond w; atan2(0, 0) is 0.
angle_encoded(span) ==
    LET wx == 0 - span[1]
        wy == 0 - span[2]
        NotBeyond(j) == code_boundary(j)[1] * wy - code_boundary(j)[2] * wx >= 0
        upper == wy > 0 \/ (wy = 0 /\ wx < 0)
        n == IF upper
             THEN Cardinality({ j \in 0..127 : NotBeyond(j) })
             ELSE 128 + Cardinality({ j \in 128..255 : NotBeyond(j) })
    IN  IF span = <<0, 0>> THEN 128 ELSE n % NUM_POSSIBLE_ENCODED_VALUE

\* line 203: round(sqrt(norm2(span) / 2)) for a span of whole numbers
length_encoded(span) == (sqrt(2 * (span[1] * span[1] + span[2] * span[2])) + 1) \div 2

\* target_aabb, line 181
target_aabb == <<<<0, 0>>, <<255 * Unit, 255 * Unit>>>>

\* lines 186-210: the feature vector of one stroke; the values are whole
\* numbers and are stored as such
encode_stroke(stroke, box) ==
    LET projected == [j \in 1..Len(stroke) |-> project(box, target_aabb, stroke[j])]
        stroke_processed == process_stroke(projected, NUM_ENCODED_POINTS)
        whole == [j \in 1..Len(stroke_processed) |->
                    <<stroke_processed[j][1] \div Unit, stroke_processed[j][2] \div Unit>>]
        stroke_span == subtract(whole[Len(whole)], whole[1])
    IN  << whole[1][1], whole[1][2], whole[2][1], whole[2][2],
           whole[3][1], whole[3][2], whole[4][1], whole[4][2],
           angle_encoded(stroke_span), length_encoded(stroke_span) >>

\* faulty variant: only the empty collection is refused
invalid_strokes_collection(strks) == strks = <<>>

\* lines 175-177: the panic condition
invalid_strokes(strks) == strks = <<>> \/ \E i \in 1..Len(strks) : strks[i] = <<>>

\* get_aabb on strokes without any point returns [[inf, inf], [-inf, -inf]],
\* on which normalize_aabb panics (line 137)
no_point(strks) == Coords(strks, 1) = {}

\* process_stroke on an empty stroke panics (line 95: stroke.len() - 1
\* underflows; line 100: stroke[0] does not exist)
process_stroke_panics(stroke) == stroke = <<>>

\* whether the call panics: at line 176, inside normalize_aabb, or inside
\* process_stroke
preprocess_strokes_panics(strks) ==
    \/ invalid_strokes(strks)
    \/ no_point(strks)
    \/ normalize_aabb_panics(get_aabb(strks))
    \/ \E i \in 1..Len(strks) : process_stroke_panics(strks[i])

\* the result of a call that does not panic
preprocess_strokes(strks, opts) ==
    LET normalized == normalize_aabb(get_aabb(strks), opts.max_ratio, opts.min_width)
    IN  [i \in 1..Len(strks) |-> encode_stroke(strks[i], normalized)]

----------------------------------------------------------------------------
(* Matcher, lib.rs 267-362 *)

\* faulty variant: the walk also passes equal scores (>= for >)
RECURSIVE insert_pos_ge(_, _, _)
insert_pos_ge(scs, score, f) ==
    IF f > 0 /\ score >= scs[f] THEN insert_pos_ge(scs, score, f - 1) ELSE f

\* faulty variant: no walk, the new entry is appended
insert_pos_append(scs, score, f) == f

\* lines 306-309 / 344-347: f = scores.len(); while f > 0 && score > scores[f-1] { f -= 1 }
RECURSIVE insert_pos(_, _, _)
insert_pos(scs, score, f) ==
    IF f > 0 /\ score > scs[f] THEN insert_pos(scs, score, f - 1) ELSE f

\* faulty variant: the list is not cut back to k entries
insert_capped_nopop(list, f, x, k) ==
    IF k > f THEN InsertAt(list, f, x) ELSE list

\* lines 311-318 / 349-356 applied to one of the parallel lists
insert_capped(list, f, x, k) ==
    IF k > f
    THEN LET l2 == InsertAt(list, f, x)
         IN  IF Len(l2) > k THEN Pop(l2) ELSE l2
    ELSE list

\* faulty variant: the stroke-count filter is >= instead of ==
scan_entry_ge(query, k, cands, scs, pos, scd, i) ==
    LET candidate == medians[i] IN
    IF Len(candidate.vecs) >= Len(query)
    THEN LET score == score_similarity(query, candidate.vecs)
             f == insert_pos(scs, score, Len(scs))
         IN  [candidates |-> insert_capped(cands, f, candidate.id, k),
              scores     |-> insert_capped(scs, f, score, k),
              cand_pos   |-> insert_capped(pos, f, i, k),
              scored     |-> scd \cup {i}]
    ELSE [candidates |-> cands, scores |-> scs, cand_pos |-> pos, scored |-> scd]

\* One iteration of `for candidate in &self.medians` (lines 301-320 and
\* 339-358, the same text in both entry points), on database position i.
\* Returns the new values of candidates, scores and the history variables.
scan_entry(query, k, cands, scs, pos, scd, i) ==
    LET candidate == medians[i] IN
    IF Len(candidate.vecs) = Len(query)
    THEN LET score == score_similarity(query, candidate.vecs)
             f == insert_pos(scs, score, Len(scs))
         IN  [candidates |-> insert_capped(cands, f, candidate.id, k),
              scores     |-> insert_capped(scs, f, score, k),
              cand_pos   |-> insert_capped(pos, f, i, k),
              scored     |-> scd \cup {i}]
    ELSE [candidates |-> cands, scores |-> scs, cand_pos |-> pos, scored |-> scd]

\* match_preprocessed as a function of its arguments, on the database of
\* the state: the early return of lines 331-333, then the loop of lines
\* 339-358 from database position i on, then the candidates (line 360)
RECURSIVE scan_all(_, _, _, _)
scan_all(query, k, r, i) ==
    IF i > Len(medians) THEN r
    ELSE scan_all(query, k,
                  scan_entry(query, k, r.candidates, r.scores, r.cand_pos, r.scored, i),
                  i + 1)
match_preprocessed(query, k) ==
    IF query = <<>> THEN <<>>
    ELSE scan_all(query, k,
                  [candidates |-> <<>>, scores |-> <<>>, cand_pos |-> <<>>, scored |-> {}],
                  1).candidates

----------------------------------------------------------------------------
(* The parts of the state a run does not use stay at these values *)

IdleMatch ==
    /\ medians = <<>>
    /\ params = [max_ratio |-> [num |-> 1, den |-> 1], min_width |-> 8 * Unit]
    /\ op = "none"
    /\ strokes = <<>>
    /\ strokes_processed = <<>>
    /\ how_many_candidates = 0
    /\ candidates = <<>>
    /\ scores = <<>>
    /\ idx = 0
    /\ m_pc = "idle"
    /\ scored = {}
    /\ cand_pos = <<>>
    /\ preprocess_calls = 0
    /\ boxed = FALSE
    /\ aabb_after = <<<<0, 0>>, <<0, 0>>>>

IdleAabb ==
    /\ aabb = <<<<0, 0>>, <<0, 0>>>>
    /\ max_ratio = [num |-> 1, den |-> 1]
    /\ min_width = 0
    /\ e = <<0, 0>>
    /\ b_pc = "idle"
    /\ aabb_arg = <<<<0, 0>>, <<0, 0>>>>

IdleScore ==
    /\ sc_input = <<>>
    /\ sc_reference = <<>>
    /\ sc_i = 0
    /\ sc_score = 0
    /\ sc_angle = 0
    /\ s_pc = "idle"

IdleSocket ==
    /\ pending = <<>>
    /\ connected = 0
    /\ line = <<>>
    /\ response = <<>>
    /\ result = "none"
    /\ k_pc = "idle"
    /\ log = <<>>

IdleResample ==
    /\ rs_stroke = <<>>
    /\ rs_n = 0
    /\ stroke_length = 0
    /\ rs_i = 0
    /\ rs_s = 0
    /\ rs_walk = [h |-> 0, point_candidate |-> <<0, 0>>, u |-> 0, panic |-> FALSE]
    /\ result_stroke = <<>>
    /\ r_pc = "idle"

----------------------------------------------------------------------------
(* Bounds and input domains of the matcher runs *)

MaxDb == 3        \* database entries
MaxStrokes == 2   \* strokes per character
MaxK == 2         \* requested candidates

\* a feature vector that differs from the zero vector in x0, y3, angle, length
MkVec(x0, y3, angle, length) == <<x0, 0, 0, 0, 0, 0, 0, y3, angle, length>>

\* p, q differ by the angle wraparound 0 / 255; r and t are at the same
\* distance from p (a tie between different vectors)
FeatureVecs ==
    { MkVec(0, 0, 0, 1), MkVec(0, 0, 255, 1), MkVec(1, 0, 0, 1), MkVec(0, 1, 0, 1) }

Ids == {"a", "b"}

SeqsUpTo(S, lo, hi) == UNION { [1..n -> S] : n \in lo..hi }

\* Characters of 0..MaxStrokes strokes (the loaders accept an entry with no
\* stroke): the first stroke is any vector of
\* FeatureVecs, the later strokes are the vector TailVec (this keeps the
\* number of databases small; the scorer runs on all pairs of
\* vectors under SpecScore)
TailVec == MkVec(0, 0, 0, 1)
Characters ==
    { [i \in 1..n |-> IF i = 1 THEN v ELSE TailVec] : v \in FeatureVecs, n \in 0..MaxStrokes }
Entries == [id : Ids, vecs : Characters]
Databases == SeqsUpTo(Entries, 0, MaxDb)
Queries == Characters

DefaultOptions == [max_ratio |-> [num |-> 1, den |-> 1], min_width |-> 8 * Unit]

\* the point (x2 / 2, y2 / 2)
HalfPoint(x2, y2) == <<(x2 * Unit) \div 2, (y2 * Unit) \div 2>>

\* Raw queries of match_strokes: no stroke; a horizontal stroke; an L-shaped
\* stroke followed by the horizontal one; a single point; a stroke followed
\* by an empty stroke (refused by preprocess_strokes); a stroke that begins
\* at x = 1/2, followed by the L-shaped one.
RawQueries ==
    LET horizontal == <<HalfPoint(0, 0), HalfPoint(16, 0)>>
        corner == <<HalfPoint(0, 0), HalfPoint(0, 16), HalfPoint(16, 16)>>
        dot == <<HalfPoint(8, 8)>>
        shifted == <<HalfPoint(1, 0), HalfPoint(17, 0)>>
    IN  { <<>>, <<horizontal>>, <<corner, horizontal>>, <<dot>>,
          <<horizontal, <<>>>>, <<shifted, corner>> }

\* Arguments of Matcher::preprocess: one or two strokes, each empty or made
\* of points of a small set of whole and half coordinates, with segments
\* parallel to an axis; and the empty list
PreprocessPoints ==
    { HalfPoint(0, 0), HalfPoint(1, 0), HalfPoint(16, 0), HalfPoint(17, 0),
      HalfPoint(0, 16), HalfPoint(16, 16) }
PreprocessStrokes ==
    { <<>> } \cup { <<p>> : p \in PreprocessPoints }
      \cup { <<p, q>> : p, q \in { r \in PreprocessPoints : r[2] = 0 } }
      \cup { <<HalfPoint(0, 0), HalfPoint(0, 16), HalfPoint(16, 16)>> }
PreprocessQueries ==
    { <<>> } \cup { <<st>> : st \in PreprocessStrokes }
      \cup { <<st, su>> : st, su \in PreprocessStrokes }

----------------------------------------------------------------------------
(* The request lines of SocketService::handle_client, socket_service.rs  *)
(* 64-104.  A line is a sequence of characters.                           *)

TAB == "\t"
NEWLINE == "\n"
COMMA == ","
Whitespace == {TAB, NEWLINE, " "}
Digits == {"0", "1", "2", "3", "4", "5", "6", "7", "8", "9"}

\* line 64, str::trim: white space at both ends is removed
RECURSIVE trim_start(_)
trim_start(s) == IF s # <<>> /\ Head(s) \in Whitespace THEN trim_start(Tail(s)) ELSE s
RECURSIVE trim_end(_)
trim_end(s) == IF s # <<>> /\ s[Len(s)] \in Whitespace THEN trim_end(Pop(s)) ELSE s
trim(s) == trim_end(trim_start(s))

\* lines 64 and 77, str::split: the pieces between the separators; a string
\* without separator (the empty string too) is one piece
RECURSIVE split_from(_, _, _, _)
split_from(s, sep, i, piece) ==
    IF i > Len(s) THEN <<piece>>
    ELSE IF s[i] = sep THEN <<piece>> \o split_from(s, sep, i + 1, <<>>)
    ELSE split_from(s, sep, i + 1, Append(piece, s[i]))
split(s, sep) == split_from(s, sep, 1, <<>>)

\* lines 70, 71, 78, str::parse::<f64>: over the characters of the model (digits,
\* letters, separators) a piece is a number when it is a non-empty string
\* of digits
parse_ok(s) == s # <<>> /\ \A i \in 1..Len(s) : s[i] \in Digits
digit_value(c) ==
    CASE c = "0" -> 0 [] c = "1" -> 1 [] c = "2" -> 2 [] c = "3" -> 3 [] c = "4" -> 4
      [] c = "5" -> 5 [] c = "6" -> 6 [] c = "7" -> 7 [] c = "8" -> 8 [] c = "9" -> 9
RECURSIVE parse_digits(_)
parse_digits(s) ==
    IF s = <<>> THEN 0 ELSE 10 * parse_digits(Pop(s)) + digit_value(s[Len(s)])
parse(s) == Unit * parse_digits(s)

\* lines 76-79: the pieces of a stroke field that parse, as numbers; the
\* other pieces are dropped
coords_of(stroke_str) ==
    LET numeric == SelectSeq(split(stroke_str, COMMA), parse_ok)
    IN  [i \in 1..Len(numeric) |-> parse(numeric[i])]

\* line 81
odd_coords(stroke_str) == Len(coords_of(stroke_str)) % 2 # 0

\* lines 86-89: the points of a stroke field
stroke_of(stroke_str) ==
    LET coords == coords_of(stroke_str)
    IN  [i \in 1..(Len(coords) \div 2) |-> <<coords[2 * i - 1], coords[2 * i]>>]

\* lines 66 and 82: the two error lines
ERROR_FORMAT == "ERROR\tInvalid input format\n"
ERROR_COORDS == "ERROR\tInvalid stroke coordinates\n"

\* lines 98-104: the writes of the candidate list
RECURSIVE write_candidates(_)
write_candidates(cands) ==
    IF cands = <<>> THEN <<>>
    ELSE IF Len(cands) = 1 THEN <<cands[1]>>
    ELSE write_candidates(Pop(cands)) \o <<TAB, cands[Len(cands)]>>
candidate_response(cands) == write_candidates(cands) \o <<NEWLINE>>

\* line 94: the requested number of candidates
REQUESTED_CANDIDATES == 10

(* Bounds and input domains of the service runs *)

MaxConn == 2      \* connections made to the service

RECURSIVE join(_, _)
join(pieces, sep) ==
    IF pieces = <<>> THEN <<>>
    ELSE IF Len(pieces) = 1 THEN pieces[1]
    ELSE join(Pop(pieces), sep) \o <<sep>> \o pieces[Len(pieces)]

\* stroke fields: empty; a letter; one point; three numbers; two points; a
\* letter between two numbers; three points
StrokeFields ==
    LET n0 == <<"0">>
        n8 == <<"8">>
        n16 == <<"1", "6">>
        x == <<"x">>
    IN  { <<>>, x, join(<<n0, n0>>, COMMA), join(<<n0, n0, n8>>, COMMA),
          join(<<n0, n0, n8, n0>>, COMMA), join(<<n0, x, n0>>, COMMA),
          join(<<n0, n0, n0, n16, n16, n16>>, COMMA) }

\* the two sizing fields: numbers, a letter in either place, an empty first field
SizingFields ==
    { <<<<"0">>, <<"0">>>>, <<<<"x">>, <<"0">>>>, <<<<"0">>, <<"x">>>>, <<<<>>, <<"0">>>> }

\* the stroke fields of a request: none, one, or two of which the first is
\* a stroke of two points and the second such a stroke, an empty field or
\* a letter
StrokeFieldLists ==
    LET two_points == join(<<<<"0">>, <<"0">>, <<"8">>, <<"0">>>>, COMMA)
    IN  { <<>> } \cup { <<f>> : f \in StrokeFields }
          \cup { <<two_points, g>> : g \in { two_points, <<>>, <<"x">> } }

RequestLines ==
    { join(sz \o fs, TAB) \o <<NEWLINE>> : sz \in SizingFields, fs \in StrokeFieldLists }

\* lines 64 and 74-91: the fields of a line and the strokes of its stroke fields
request_parts(l) == split(trim(l), TAB)
request_strokes(parts) == [j \in 1..(Len(parts) - 2) |-> stroke_of(parts[j + 2])]

\* the fields and the strokes of the lines of RequestLines, computed once
ParsedLines ==
    [l \in RequestLines |->
        [parts |-> request_parts(l),
         strokes |-> IF Len(request_parts(l)) >= 3
                     THEN request_strokes(request_parts(l)) ELSE <<>>]]
parts_of(l) ==
    IF l \in DOMAIN ParsedLines THEN ParsedLines[l].parts ELSE request_parts(l)
strokes_of(l) ==
    IF l \in DOMAIN ParsedLines THEN ParsedLines[l].strokes
    ELSE request_strokes(request_parts(l))

\* the stroke lists the service passes to match_strokes on these lines, and
\* their feature vectors under the default options, computed once
ServiceQueries == { ParsedLines[l].strokes : l \in RequestLines }
ServicePreprocessed ==
    [q \in { r \in ServiceQueries : ~preprocess_strokes_panics(r) } |->
        preprocess_strokes(q, DefaultOptions)]

----------------------------------------------------------------------------
(* Matcher runs: Matcher::new, then one call of an entry point *)

InitMatch ==
    /\ params = DefaultOptions
    /\ \/ /\ op = "match_preprocessed"
          /\ medians \in Databases
          /\ strokes = <<>>
          /\ strokes_processed \in Queries
          /\ how_many_candidates \in 0..MaxK
       \/ /\ op = "match_strokes"
          /\ medians \in Databases
          /\ strokes \in RawQueries
          /\ strokes_processed = <<>>
          /\ how_many_candidates \in 0..MaxK
       \/ /\ op = "preprocess"
          /\ medians = <<>>
          /\ strokes \in PreprocessQueries
          /\ strokes_processed = <<>>
          /\ how_many_candidates = 0
    /\ candidates = <<>>
    /\ scores = <<>>
    /\ idx = 0
    /\ m_pc = "start"
    /\ scored = {}
    /\ cand_pos = <<>>
    /\ preprocess_calls = 0
    /\ boxed = FALSE
    /\ aabb_after = <<<<0, 0>>, <<0, 0>>>>
    /\ IdleResample
    /\ IdleAabb
    /\ IdleScore
    /\ IdleSocket

\* faulty variant: no early return on an empty query
match_preprocessed_begin_nocheck ==
    /\ m_pc = "start"
    /\ op = "match_preprocessed"
    /\ m_pc' = "scan"
    /\ UNCHANGED <<medians, params, op, strokes, strokes_processed,
                   how_many_candidates, candidates, scores, idx, scored,
                   cand_pos, preprocess_calls>>
    /\ UNCHANGED <<boxed, aabb_after>>
    /\ UNCHANGED <<rvars, bvars, svars, kvars>>

\* match_preprocessed, lines 331-336
match_preprocessed_begin ==
    /\ m_pc = "start"
    /\ op = "match_preprocessed"
    /\ m_pc' = IF strokes_processed = <<>> THEN "done" ELSE "scan"
    /\ UNCHANGED <<medians, params, op, strokes, strokes_processed,
                   how_many_candidates, candidates, scores, idx, scored,
                   cand_pos, preprocess_calls>>
    /\ UNCHANGED <<boxed, aabb_after>>
    /\ UNCHANGED <<rvars, bvars, svars, kvars>>

\* match_preprocessed, lines 339-358: one loop iteration
match_preprocessed_scan ==
    /\ m_pc = "scan"
    /\ op = "match_preprocessed"
    /\ idx < Len(medians)
    /\ LET r == scan_entry(strokes_processed, how_many_candidates,
                           candidates, scores, cand_pos, scored, idx + 1)
       IN  /\ candidates' = r.candidates
           /\ scores' = r.scores
           /\ cand_pos' = r.cand_pos
           /\ scored' = r.scored
    /\ idx' = idx + 1
    /\ UNCHANGED <<medians, params, op, strokes, strokes_processed,
                   how_many_candidates, m_pc, preprocess_calls>>
    /\ UNCHANGED <<boxed, aabb_after>>
    /\ UNCHANGED <<rvars, bvars, svars, kvars>>

\* match_preprocessed, line 360: the loop is over, return candidates
match_preprocessed_return ==
    /\ m_pc = "scan"
    /\ op = "match_preprocessed"
    /\ idx = Len(medians)
    /\ m_pc' = "done"
    /\ UNCHANGED <<medians, params, op, strokes, strokes_processed,
                   how_many_candidates, candidates, scores, idx, scored,
                   cand_pos, preprocess_calls>>
    /\ UNCHANGED <<boxed, aabb_after>>
    /\ UNCHANGED <<rvars, bvars, svars, kvars>>

\* Matcher::preprocess, lines 286-288: preprocess_strokes(strokes, &self.params);
\* on the queries of the service the vectors are read from ServicePreprocessed
preprocess(strks) ==
    IF params = DefaultOptions /\ strks \in DOMAIN ServicePreprocessed
    THEN ServicePreprocessed[strks]
    ELSE preprocess_strokes(strks, params)

\* match_strokes, lines 292-298: the early return, then
\* strokes2 = self.preprocess(strokes) (kept in strokes_processed), which
\* panics on an invalid stroke list
match_strokes_begin ==
    /\ m_pc = "start"
    /\ op = "match_strokes"
    /\ IF strokes = <<>>
       THEN /\ m_pc' = "done"
            /\ UNCHANGED <<strokes_processed, preprocess_calls, boxed, aabb_after>>
       ELSE /\ preprocess_calls' = preprocess_calls + 1
            /\ boxed' = ~invalid_strokes(strokes)
            /\ IF preprocess_strokes_panics(strokes)
               THEN m_pc' = "panic" /\ UNCHANGED <<strokes_processed, aabb_after>>
               ELSE /\ m_pc' = "scan"
                    /\ aabb_after' = normalize_aabb(get_aabb(strokes),
                                                    params.max_ratio, params.min_width)
                    /\ strokes_processed' = preprocess(strokes)
    /\ UNCHANGED <<medians, params, op, strokes, how_many_candidates,
                   candidates, scores, idx, scored, cand_pos>>
    /\ UNCHANGED <<rvars, bvars, svars, kvars>>

\* faulty variant: the loop of match_strokes filters with >= where
\* match_preprocessed filters with ==
match_strokes_scan_ge ==
    /\ m_pc = "scan"
    /\ op = "match_strokes"
    /\ idx < Len(medians)
    /\ LET r == scan_entry_ge(strokes_processed, how_many_candidates,
                              candidates, scores, cand_pos, scored, idx + 1)
       IN  /\ candidates' = r.candidates
           /\ scores' = r.scores
           /\ cand_pos' = r.cand_pos
           /\ scored' = r.scored
    /\ idx' = idx + 1
    /\ UNCHANGED <<medians, params, op, strokes, strokes_processed,
                   how_many_candidates, m_pc, preprocess_calls>>
    /\ UNCHANGED <<boxed, aabb_after>>
    /\ UNCHANGED <<rvars, bvars, svars, kvars>>

\* match_strokes, lines 301-320: one loop iteration
match_strokes_scan ==
    /\ m_pc = "scan"
    /\ op = "match_strokes"
    /\ idx < Len(medians)
    /\ LET r == scan_entry(strokes_processed, how_many_candidates,
                           candidates, scores, cand_pos, scored, idx + 1)
       IN  /\ candidates' = r.candidates
           /\ scores' = r.scores
           /\ cand_pos' = r.cand_pos
           /\ scored' = r.scored
    /\ idx' = idx + 1
    /\ UNCHANGED <<medians, params, op, strokes, strokes_processed,
                   how_many_candidates, m_pc, preprocess_calls>>
    /\ UNCHANGED <<boxed, aabb_after>>
    /\ UNCHANGED <<rvars, bvars, svars, kvars>>

\* match_strokes, line 322: the loop is over, return candidates
match_strokes_return ==
    /\ m_pc = "scan"
    /\ op = "match_strokes"
    /\ idx = Len(medians)
    /\ m_pc' = "done"
    /\ UNCHANGED <<medians, params, op, strokes, strokes_processed,
                   how_many_candidates, candidates, scores, idx, scored,
                   cand_pos, preprocess_calls>>
    /\ UNCHANGED <<boxed, aabb_after>>
    /\ UNCHANGED <<rvars, bvars, svars, kvars>>

\* Matcher::preprocess (lines 286-288) calls preprocess_strokes; lines
\* 175-177: the check of the stroke list
preprocess_begin ==
    /\ m_pc = "start"
    /\ op = "preprocess"
    /\ preprocess_calls' = preprocess_calls + 1
    /\ m_pc' = IF invalid_strokes(strokes) THEN "panic" ELSE "box"
    /\ UNCHANGED <<medians, params, op, strokes, strokes_processed,
                   how_many_candidates, candidates, scores, idx, scored,
                   cand_pos, boxed, aabb_after>>
    /\ UNCHANGED <<rvars, bvars, svars, kvars>>

\* lines 179-182: the normalized box of all strokes
preprocess_box ==
    /\ m_pc = "box"
    /\ op = "preprocess"
    /\ boxed' = TRUE
    /\ IF no_point(strokes) \/ normalize_aabb_panics(get_aabb(strokes))
       THEN m_pc' = "panic" /\ UNCHANGED aabb_after
       ELSE /\ m_pc' = "encode"
            /\ aabb_after' = normalize_aabb(get_aabb(strokes),
                                            params.max_ratio, params.min_width)
    /\ UNCHANGED <<medians, params, op, strokes, strokes_processed,
                   how_many_candidates, candidates, scores, idx, scored,
                   cand_pos, preprocess_calls>>
    /\ UNCHANGED <<rvars, bvars, svars, kvars>>

\* lines 186-210: the feature vector of the next stroke, collected in
\* strokes_processed
preprocess_stroke ==
    /\ m_pc = "encode"
    /\ op = "preprocess"
    /\ Len(strokes_processed) < Len(strokes)
    /\ LET stroke == strokes[Len(strokes_processed) + 1]
       IN  IF process_stroke_panics(stroke)
           THEN m_pc' = "panic" /\ UNCHANGED strokes_processed
           ELSE /\ strokes_processed' =
                      Append(strokes_processed, encode_stroke(stroke, aabb_after))
                /\ UNCHANGED m_pc
    /\ UNCHANGED <<medians, params, op, strokes, how_many_candidates,
                   candidates, scores, idx, scored, cand_pos, preprocess_calls,
                   boxed, aabb_after>>
    /\ UNCHANGED <<rvars, bvars, svars, kvars>>

\* line 211: every stroke is encoded, return the vectors
preprocess_return ==
    /\ m_pc = "encode"
    /\ op = "preprocess"
    /\ Len(strokes_processed) = Len(strokes)
    /\ m_pc' = "done"
    /\ UNCHANGED <<medians, params, op, strokes, strokes_processed,
                   how_many_candidates, candidates, scores, idx, scored,
                   cand_pos, preprocess_calls, boxed, aabb_after>>
    /\ UNCHANGED <<rvars, bvars, svars, kvars>>

NextMatch ==
    \/ preprocess_begin
    \/ preprocess_box
    \/ preprocess_stroke
    \/ preprocess_return
    \/ match_strokes_begin
    \/ match_strokes_scan
    \/ match_strokes_return
    \/ match_preprocessed_begin
    \/ match_preprocessed_scan
    \/ match_preprocessed_return

SpecMatch == InitMatch /\ [][NextMatch]_vars

----------------------------------------------------------------------------
(* Runs of the service: main, then SocketService::start *)

\* the database the service was started with: two characters of one stroke
\* and one of two strokes
ServiceDatabase ==
    << [id |-> "a", vecs |-> <<MkVec(0, 0, 0, 1)>>],
       [id |-> "b", vecs |-> <<MkVec(1, 0, 0, 1)>>],
       [id |-> "c", vecs |-> <<MkVec(0, 1, 0, 1), TailVec>>] >>

\* main.rs 26-31: Matcher::new(data, None), SocketService::new, start up to
\* the accept loop
InitSocket ==
    /\ medians = ServiceDatabase
    /\ params = DefaultOptions
    /\ op = "none"
    /\ strokes = <<>>
    /\ strokes_processed = <<>>
    /\ how_many_candidates = 0
    /\ candidates = <<>>
    /\ scores = <<>>
    /\ idx = 0
    /\ m_pc = "idle"
    /\ scored = {}
    /\ cand_pos = <<>>
    /\ preprocess_calls = 0
    /\ boxed = FALSE
    /\ aabb_after = <<<<0, 0>>, <<0, 0>>>>
    /\ pending = <<>>
    /\ connected = 0
    /\ line = <<>>
    /\ response = <<>>
    /\ result = "none"
    /\ k_pc = "accept"
    /\ log = <<>>
    /\ IdleResample
    /\ IdleAabb
    /\ IdleScore

\* a client connects and writes its request line (the test at lines 146-152)
client_connect ==
    /\ connected < MaxConn
    /\ \E l \in RequestLines : pending' = Append(pending, l)
    /\ connected' = connected + 1
    /\ UNCHANGED <<line, response, result, k_pc, log>>
    /\ UNCHANGED <<mvars, rvars, bvars, svars>>

\* start, lines 37-40: the next connection; handle_client, lines 56-60:
\* its request line
accept ==
    /\ k_pc = "accept"
    /\ pending # <<>>
    /\ line' = Head(pending)
    /\ pending' = Tail(pending)
    /\ response' = <<>>
    /\ result' = "none"
    /\ k_pc' = "handle"
    /\ UNCHANGED <<connected, log>>
    /\ UNCHANGED <<mvars, rvars, bvars, svars>>

\* handle_client, lines 64-94: the fields of the line, the two sizing
\* fields, the strokes, and the call of match_strokes
handle_client_parse ==
    /\ k_pc = "handle"
    /\ LET parts == parts_of(line)
       IN  IF Len(parts) < 3
           THEN /\ response' = <<ERROR_FORMAT>>
                /\ result' = "Ok"
                /\ k_pc' = "returned"
                /\ UNCHANGED mvars
           ELSE IF ~parse_ok(parts[1]) \/ ~parse_ok(parts[2])
           THEN /\ result' = "Err"
                /\ k_pc' = "returned"
                /\ UNCHANGED <<response, mvars>>
           ELSE IF \E j \in 3..Len(parts) : odd_coords(parts[j])
           THEN /\ response' = <<ERROR_COORDS>>
                /\ result' = "Ok"
                /\ k_pc' = "returned"
                /\ UNCHANGED mvars
           ELSE /\ strokes' = strokes_of(line)
                /\ how_many_candidates' = REQUESTED_CANDIDATES
                /\ op' = "match_strokes"
                /\ m_pc' = "start"
                /\ candidates' = <<>>
                /\ scores' = <<>>
                /\ idx' = 0
                /\ scored' = {}
                /\ cand_pos' = <<>>
                /\ strokes_processed' = <<>>
                /\ preprocess_calls' = 0
                /\ boxed' = FALSE
                /\ k_pc' = "match"
                /\ UNCHANGED <<medians, params, aabb_after, response, result>>
    /\ UNCHANGED <<pending, connected, line, log>>
    /\ UNCHANGED <<rvars, bvars, svars>>

\* handle_client, lines 98-106: match_strokes has returned; the candidates
\* are written
handle_client_respond ==
    /\ k_pc = "match"
    /\ m_pc = "done"
    /\ response' = candidate_response(candidates)
    /\ result' = "Ok"
    /\ k_pc' = "returned"
    /\ op' = "none"
    /\ m_pc' = "idle"
    /\ UNCHANGED <<medians, params, strokes, strokes_processed, how_many_candidates,
                   candidates, scores, idx, scored, cand_pos, preprocess_calls,
                   boxed, aabb_after>>
    /\ UNCHANGED <<pending, connected, line, log>>
    /\ UNCHANGED <<rvars, bvars, svars>>

\* match_strokes has panicked: nothing catches the panic in handle_client
\* (line 94), in start (line 40) or in main (main.rs 31), the process ends
handle_client_panic ==
    /\ k_pc = "match"
    /\ m_pc = "panic"
    /\ k_pc' = "crashed"
    /\ UNCHANGED <<pending, connected, line, response, result, log>>
    /\ UNCHANGED <<mvars, rvars, bvars, svars>>

\* start, lines 40-42 and 37: handle_client has returned, the error is
\* printed, the loop goes to the next connection
start_next ==
    /\ k_pc = "returned"
    /\ log' = Append(log, [line |-> line, response |-> response, result |-> result])
    /\ k_pc' = "accept"
    /\ UNCHANGED <<pending, connected, line, response, result>>
    /\ UNCHANGED <<mvars, rvars, bvars, svars>>

\* the steps of the service
ServiceStep ==
    \/ accept
    \/ handle_client_parse
    \/ match_strokes_begin
    \/ match_strokes_scan
    \/ match_strokes_return
    \/ handle_client_respond
    \/ handle_client_panic
    \/ start_next

NextSocket ==
    \/ client_connect
    \/ accept
    \/ handle_client_parse
    \/ match_strokes_begin
    \/ match_strokes_scan
    \/ match_strokes_return
    \/ handle_client_respond
    \/ handle_client_panic
    \/ start_next

SpecSocket == InitSocket /\ [][NextSocket]_vars

\* the service runs whenever it can take a step (it is the only thread of
\* the process); clients connect when they like
FairSocket == SpecSocket /\ WF_vars(ServiceStep)

----------------------------------------------------------------------------
(* Runs of process_stroke: one call on a stroke of half-unit grid points *)

MaxGrid == 4      \* coordinates 0, 1/2, ..., MaxGrid / 2
MaxPts == 3       \* points of the input stroke
MaxSamples == 4   \* how_many_points_to_sample

GridPoints == { <<x * (Unit \div 2), y * (Unit \div 2)>> : x, y \in 0..MaxGrid }

\* the squares of the lengths, in half units, that two grid points can be apart
HalfUnitSquares == { k * k : k \in 0..(2 * MaxGrid) }

\* every segment of the stroke has a rational length (axis-parallel, 3-4-5,
\* or of equal points)
ExactStroke(stroke) ==
    \A i \in 1..(Len(stroke) - 1) :
        LET d == subtract(stroke[i + 1], stroke[i])
            a == d[1] \div (Unit \div 2)
            b == d[2] \div (Unit \div 2)
        IN  a * a + b * b \in HalfUnitSquares

\* the exact strokes of n grid points
GridStrokes(n) == { st \in [1..n -> GridPoints] : ExactStroke(st) }

InitResample ==
    /\ \E n \in 0..MaxPts : rs_stroke \in GridStrokes(n)
    /\ rs_n \in 2..MaxSamples
    /\ stroke_length = 0
    /\ rs_i = 0
    /\ rs_s = 0
    /\ rs_walk = [h |-> 0, point_candidate |-> <<0, 0>>, u |-> 0, panic |-> FALSE]
    /\ result_stroke = <<>>
    /\ r_pc = "start"
    /\ IdleMatch
    /\ IdleAabb
    /\ IdleScore
    /\ IdleSocket

\* lines 91-101: total length and the start of the walk.  On an empty stroke
\* `stroke.len() - 1` underflows and stroke[0] does not exist: a panic.
process_stroke_begin ==
    /\ r_pc = "start"
    /\ IF rs_stroke = <<>>
       THEN /\ r_pc' = "panic"
            /\ UNCHANGED <<stroke_length, rs_walk>>
       ELSE /\ stroke_length' = path_length(rs_stroke)
            /\ rs_walk' = walk_start(rs_stroke)
            /\ r_pc' = "sample"
    /\ UNCHANGED <<rs_stroke, rs_n, rs_i, rs_s, result_stroke>>
    /\ UNCHANGED <<mvars, bvars, svars, kvars>>

\* faulty variant: the walk starts again from stroke[0] for every sample
process_stroke_sample_restart ==
    /\ r_pc = "sample"
    /\ rs_i < rs_n - 1
    /\ rs_s' = sample_position(rs_i, stroke_length, rs_n)
    /\ rs_walk' = walk_start(rs_stroke)
    /\ r_pc' = "walk"
    /\ UNCHANGED <<rs_stroke, rs_n, stroke_length, rs_i, result_stroke>>
    /\ UNCHANGED <<mvars, bvars, svars, kvars>>

\* lines 104-105: the head of `for i in 0..N-1` and the position s
process_stroke_sample ==
    /\ r_pc = "sample"
    /\ rs_i < rs_n - 1
    /\ rs_s' = sample_position(rs_i, stroke_length, rs_n)
    /\ r_pc' = "walk"
    /\ UNCHANGED <<rs_stroke, rs_n, stroke_length, rs_i, rs_walk, result_stroke>>
    /\ UNCHANGED <<mvars, bvars, svars, kvars>>

\* lines 106-121: one iteration of `while s > u`
process_stroke_walk ==
    /\ r_pc = "walk"
    /\ rs_s > rs_walk.u
    /\ rs_walk' = walk_step(rs_stroke, rs_s, rs_walk)
    /\ r_pc' = IF rs_walk'.panic THEN "panic" ELSE "walk"
    /\ UNCHANGED <<rs_stroke, rs_n, stroke_length, rs_i, rs_s, result_stroke>>
    /\ UNCHANGED <<mvars, bvars, svars, kvars>>

\* line 123: the walk has reached s; push the rounded point
process_stroke_push ==
    /\ r_pc = "walk"
    /\ ~(rs_s > rs_walk.u)
    /\ result_stroke' = Append(result_stroke, round(rs_walk.point_candidate))
    /\ rs_i' = rs_i + 1
    /\ r_pc' = "sample"
    /\ UNCHANGED <<rs_stroke, rs_n, stroke_length, rs_s, rs_walk>>
    /\ UNCHANGED <<mvars, bvars, svars, kvars>>

\* faulty variant: the last point goes through round like the others
process_stroke_finish_rounded ==
    /\ r_pc = "sample"
    /\ rs_i = rs_n - 1
    /\ result_stroke' = Append(result_stroke, round(last_point(rs_stroke)))
    /\ r_pc' = "done"
    /\ UNCHANGED <<rs_stroke, rs_n, stroke_length, rs_i, rs_s, rs_walk>>
    /\ UNCHANGED <<mvars, bvars, svars, kvars>>

\* lines 126-127: push the input's last point and return
process_stroke_finish ==
    /\ r_pc = "sample"
    /\ rs_i = rs_n - 1
    /\ result_stroke' = Append(result_stroke, last_point(rs_stroke))
    /\ r_pc' = "done"
    /\ UNCHANGED <<rs_stroke, rs_n, stroke_length, rs_i, rs_s, rs_walk>>
    /\ UNCHANGED <<mvars, bvars, svars, kvars>>

NextResample ==
    \/ process_stroke_begin
    \/ process_stroke_sample
    \/ process_stroke_walk
    \/ process_stroke_push
    \/ process_stroke_finish

SpecResample == InitResample /\ [][NextResample]_vars

\* process_stroke is sequential code: the thread that called it takes its
\* next step whenever there is one
FairResample == SpecResample /\ WF_vars(NextResample)

\* Consistency of the model: the function and the step-by-step run agree,
\* and the arithmetic of the walk is exact on the strokes of the runs.
ModelProcessStrokeAgrees ==
    /\ r_pc = "done" => result_stroke = process_stroke(rs_stroke, rs_n)
    /\ r_pc = "panic" => process_stroke(rs_stroke, rs_n) = <<>>
ModelWalkExact ==
    (r_pc = "walk" /\ rs_s > rs_walk.u /\ rs_walk.h + 2 <= Len(rs_stroke)) =>
        LET q == rs_stroke[rs_walk.h + 2]
            c == sqrt(distance2(rs_walk.point_candidate, q))
            d == rs_s - rs_walk.u
        IN  /\ IsSquare(distance2(rs_walk.point_candidate, q))
            /\ (rs_i * stroke_length) % (rs_n - 1) = 0
            /\ ~(rs_s > rs_walk.u + c) =>
                  /\ ((c - d) * rs_walk.point_candidate[1] + d * q[1]) % c = 0
                  /\ ((c - d) * rs_walk.point_candidate[2] + d * q[2]) % c = 0

\* C7: for every non-empty stroke and N >= 2, process_stroke returns (it does
\* not panic), the result has exactly N points, and its last point is the
\* input's last point, unrounded.
C7_ResampleCountAndEndpoint ==
    (rs_stroke # <<>> /\ rs_n >= 2) =>
        /\ r_pc # "panic"
        /\ Len(result_stroke) <= rs_n
        /\ r_pc = "done" =>
              /\ Len(result_stroke) = rs_n
              /\ result_stroke[rs_n] = rs_stroke[Len(rs_stroke)]

\* C7 witness: a finished call with N = 4 on a three-point stroke whose last
\* point is not on the integer grid, so that rounding would have moved it,
\* and whose walk ended on another segment than it started on.
C7_Witness ==
    /\ r_pc = "done"
    /\ rs_n = 4
    /\ Len(rs_stroke) = 3
    /\ round(last_point(rs_stroke)) # last_point(rs_stroke)
    /\ rs_walk.h = 1
    /\ rs_walk.point_candidate # last_point(rs_stroke)

\* a stroke of zero total length: one point, or all points coincident
ZeroLength(stroke) == stroke # <<>> /\ \A j \in 1..Len(stroke) : stroke[j] = stroke[1]

C19_Reads == r_pc = "walk" /\ rs_s > rs_walk.u

\* the divisor c of that iteration, and whether it takes the interpolation
\* branch, where f = (s - u) / c is computed
C19_Divisor == sqrt(distance2(rs_walk.point_candidate, rs_stroke[rs_walk.h + 2]))
C19_Interpolates == C19_Reads /\ ~(rs_s > rs_walk.u + C19_Divisor)

\* C19: on a non-empty stroke, whenever the walk reads stroke[h + 1] the
\* index is less than the stroke's length (1-based: h + 2 <= Len); h and u
\* never decrease from one step to the next, so neither across sample
\* indices; u never exceeds the total path length; and the divisor c is
\* positive whenever f = (s - u) / c is computed.
C19_WalkSafety ==
    [][ rs_stroke # <<>> =>
           /\ C19_Reads => rs_walk.h + 2 <= Len(rs_stroke)
           /\ ~rs_walk'.panic
           /\ rs_walk'.h >= rs_walk.h
           /\ rs_walk'.u >= rs_walk.u
           /\ rs_walk'.u <= stroke_length'
           /\ C19_Interpolates => C19_Divisor > 0
      ]_vars

\* C19 witness: the walk is on the second segment of a three-point stroke,
\* has travelled a positive distance and is about to interpolate for the
\* third sample
C19_Witness ==
    /\ Len(rs_stroke) = 3
    /\ rs_walk.h = 1
    /\ rs_walk.u > 0
    /\ rs_i = 2
    /\ C19_Interpolates

----------------------------------------------------------------------------
(* Runs of normalize_aabb: one call on a box of half-unit corners *)

MaxBox == 4       \* corner coordinates -1, -1/2, ..., MaxBox / 2

BoxCoords == { g * (Unit \div 2) : g \in (-2)..MaxBox }
Boxes == { <<<<x0, y0>>, <<x1, y1>>>> : x0, y0, x1, y1 \in BoxCoords }
\* -1, 0, 1/2, 1, 3, 7/2, 8
MinWidths == { 0 - Unit, 0, Unit \div 2, Unit, 3 * Unit, 7 * (Unit \div 2), 8 * Unit }
\* -1, 0, 1/2, 1, 3/2, 2
MaxRatios == { [num |-> 0 - 1, den |-> 1], [num |-> 0, den |-> 1], [num |-> 1, den |-> 2],
               [num |-> 1, den |-> 1], [num |-> 3, den |-> 2], [num |-> 2, den |-> 1] }

InitAabb ==
    /\ aabb \in Boxes
    /\ aabb_arg = aabb
    /\ max_ratio \in MaxRatios
    /\ min_width \in MinWidths
    /\ e = <<0, 0>>
    /\ b_pc = "start"
    /\ IdleMatch
    /\ IdleResample
    /\ IdleScore
    /\ IdleSocket

\* lines 133-139: round the corners, take the extents, panic on a negative one
normalize_aabb_round ==
    /\ b_pc = "start"
    /\ aabb' = round_aabb(aabb)
    /\ e' = subtract(aabb'[2], aabb'[1])
    /\ b_pc' = IF invalid_extent(e') THEN "panic" ELSE "minsize"
    /\ UNCHANGED <<max_ratio, min_width, aabb_arg>>
    /\ UNCHANGED <<mvars, rvars, svars, kvars>>

\* lines 142-151
normalize_aabb_min_size ==
    /\ b_pc = "minsize"
    /\ aabb' = min_size_pass(aabb, e, min_width)
    /\ b_pc' = "ratio"
    /\ UNCHANGED <<max_ratio, min_width, e, aabb_arg>>
    /\ UNCHANGED <<mvars, rvars, svars, kvars>>

\* lines 154-169
normalize_aabb_ratio ==
    /\ b_pc = "ratio"
    /\ aabb' = ratio_pass(aabb, max_ratio)
    /\ e' = IF max_ratio.num > 0 THEN subtract(aabb[2], aabb[1]) ELSE e
    /\ b_pc' = "done"
    /\ UNCHANGED <<max_ratio, min_width, aabb_arg>>
    /\ UNCHANGED <<mvars, rvars, svars, kvars>>

NextAabb ==
    \/ normalize_aabb_round
    \/ normalize_aabb_min_size
    \/ normalize_aabb_ratio

SpecAabb == InitAabb /\ [][NextAabb]_vars

\* Consistency of the model: the function and the step-by-step run agree.
ModelNormalizeAabbAgrees ==
    /\ b_pc = "done" => aabb = normalize_aabb(aabb_arg, max_ratio, min_width)
    /\ b_pc = "panic" <=> (b_pc # "start" /\ normalize_aabb_panics(aabb_arg))

Extent(box, a) == box[2][a] - box[1][a]
\* the smallest whole number that is at least (minw - extent) / 2
C10_Margin(minw, extent) ==
    Unit * SetMin({ i \in 0..(2 * MaxBox + 16) : 2 * i * Unit >= minw - extent })
C10_ExampleCall ==
    /\ aabb_arg = <<<<0, 0>>, <<2 * Unit, 2 * Unit>>>>
    /\ min_width = 8 * Unit
    /\ max_ratio = [num |-> 1, den |-> 1]

\* C10: in the minimum-size pass an axis whose rounded extent is below
\* min_width has its min decreased and its max increased by
\* ceil((min_width - extent) / 2), another axis is unchanged, and afterwards
\* both extents are at least min_width; the call on [[0,0],[2,2]] with
\* min_width 8 and max_ratio 1 returns [[-3,-3],[5,5]].
C10_MinSizePass ==
    [][ /\ b_pc = "minsize" =>
              \A a \in {1, 2} :
                 /\ Extent(aabb, a) < min_width =>
                       /\ aabb'[1][a] = aabb[1][a] - C10_Margin(min_width, Extent(aabb, a))
                       /\ aabb'[2][a] = aabb[2][a] + C10_Margin(min_width, Extent(aabb, a))
                 /\ Extent(aabb, a) >= min_width =>
                       /\ aabb'[1][a] = aabb[1][a]
                       /\ aabb'[2][a] = aabb[2][a]
                 /\ Extent(aabb', a) >= min_width
        /\ (b_pc' = "done" /\ C10_ExampleCall) =>
              aabb' = <<<<0 - 3 * Unit, 0 - 3 * Unit>>, <<5 * Unit, 5 * Unit>>>>
      ]_vars

\* C10 witness: the example call has returned [[-3,-3],[5,5]].
C10_Witness ==
    /\ b_pc = "done"
    /\ C10_ExampleCall
    /\ aabb = <<<<0 - 3 * Unit, 0 - 3 * Unit>>, <<5 * Unit, 5 * Unit>>>>

\* the aspect-ratio pass is about to run with max_ratio > 0
C11_RatioStep == b_pc = "ratio" /\ max_ratio.num > 0
\* extent a is below the other extent divided by max_ratio
C11_Short(box, a) ==
    Extent(box, a) * max_ratio.num < Extent(box, 3 - a) * max_ratio.den
\* the axis the pass widens: x if it is short, otherwise y if it is short
C11_Widened(box, a) ==
    IF a = 1 THEN C11_Short(box, 1) ELSE ~C11_Short(box, 1) /\ C11_Short(box, 2)
\* the min of axis a went down and its max went up by the same amount
C11_Symmetric(a) == aabb[1][a] - aabb'[1][a] = aabb'[2][a] - aabb[2][a]

\* C11 as stated: the widened axis ends with an extent equal to the other
\* extent divided by max_ratio.
C11_RatioPassAsStated ==
    [][ C11_RatioStep =>
           \A a \in {1, 2} :
              C11_Widened(aabb, a) =>
                 /\ C11_Symmetric(a)
                 /\ Extent(aabb', a) * max_ratio.num = Extent(aabb, 3 - a) * max_ratio.den
      ]_vars

\* C11 amended: the widened axis (x if ex < ey / max_ratio, otherwise y if
\* ey < ex / max_ratio) grows by the same whole number on each side, the
\* least one that brings its extent to at least the other extent divided by
\* max_ratio; so the new extent is at least that quotient and less than the
\* quotient plus 2.  The other axis, and both axes when neither is short,
\* are unchanged.
C11_RatioPassCeil ==
    [][ C11_RatioStep =>
           \A a \in {1, 2} :
              /\ C11_Widened(aabb, a) =>
                    /\ C11_Symmetric(a)
                    /\ (aabb[1][a] - aabb'[1][a]) % Unit = 0
                    /\ aabb[1][a] - aabb'[1][a] > 0
                    /\ Extent(aabb', a) * max_ratio.num >= Extent(aabb, 3 - a) * max_ratio.den
                    /\ Extent(aabb', a) * max_ratio.num
                          < Extent(aabb, 3 - a) * max_ratio.den + 2 * Unit * max_ratio.num
              /\ ~C11_Widened(aabb, a) =>
                    /\ aabb'[1][a] = aabb[1][a]
                    /\ aabb'[2][a] = aabb[2][a]
      ]_vars

\* C11 witness: a call with max_ratio > 0 has returned after its x axis,
\* short before the pass (e holds the extents before it), was widened
\* beyond the y extent divided by max_ratio.
C11_Witness ==
    /\ b_pc = "done"
    /\ max_ratio.num > 0
    /\ e[1] * max_ratio.num < e[2] * max_ratio.den
    /\ Extent(aabb, 1) * max_ratio.num > e[2] * max_ratio.den
    /\ Extent(aabb, 2) = e[2]

\* the boxes get_aabb returns on a non-empty set of non-empty strokes: the
\* min corner is at most the max corner on both axes (the box <<p, q>> is
\* the one of the single stroke <<p, q>>)
C12_BoxOfStrokes(box) ==
    /\ box[1][1] <= box[2][1]
    /\ box[1][2] <= box[2][2]
    /\ get_aabb(<<box>>) = box

\* C12: for every max_ratio and min_width, the box normalize_aabb returns
\* on the box of a non-empty set of non-empty strokes, which is the source
\* box of the projector, has a non-zero extent on both axes.
C12_NonZeroExtent ==
    (b_pc = "done" /\ C12_BoxOfStrokes(aabb_arg)) =>
        /\ Extent(aabb, 1) # 0
        /\ Extent(aabb, 2) # 0

----------------------------------------------------------------------------
(* Runs of score_similarity: one call on two sequences of equal length *)

\* the vector A of the concrete scenario: [0,0,10,0,10,10,0,10, 64, 5]
ExampleVec == <<0, 0, 10, 0, 10, 10, 0, 10, 64, 5>>
WithAngle(v, a) == [v EXCEPT ![2 * NUM_ENCODED_POINTS + 1] = a]
WithLength(v, l) == [v EXCEPT ![2 * NUM_ENCODED_POINTS + 2] = l]

AngleCodes == 0..(NUM_POSSIBLE_ENCODED_VALUE - 1)
\* every pair of angle codes, on one stroke
AnglePairs ==
    { <<<<WithAngle(ExampleVec, a)>>, <<WithAngle(ExampleVec, b)>>>> : a, b \in AngleCodes }
\* vectors that differ in a coordinate, the angle and the length
ScoreVecs ==
    { ExampleVec, WithAngle(ExampleVec, 255), WithLength(ExampleVec, 0),
      WithLength(WithAngle(ExampleVec, 0), 300),
      [ExampleVec EXCEPT ![1] = 7], [ExampleVec EXCEPT ![8] = 0 - 3] }
SmallPairs ==
    UNION { [1..n -> ScoreVecs] \X [1..n -> ScoreVecs] : n \in 0..MaxStrokes }

InitScore ==
    /\ \E pr \in AnglePairs \cup SmallPairs :
          /\ sc_input = pr[1]
          /\ sc_reference = pr[2]
    /\ sc_i = 0
    /\ sc_score = 0
    /\ sc_angle = 0
    /\ s_pc = "loop"
    /\ IdleMatch
    /\ IdleResample
    /\ IdleAabb
    /\ IdleSocket

\* lines 223-245: one iteration of `for i in 0..input.len()`
score_similarity_stroke ==
    /\ s_pc = "loop"
    /\ sc_i < Len(sc_input)
    /\ sc_angle' = angle_similarity(sc_input[sc_i + 1][2 * NUM_ENCODED_POINTS + 1],
                                    sc_reference[sc_i + 1][2 * NUM_ENCODED_POINTS + 1])
    /\ sc_score' = sc_score + stroke_score(sc_input[sc_i + 1], sc_reference[sc_i + 1])
    /\ sc_i' = sc_i + 1
    /\ UNCHANGED <<sc_input, sc_reference, s_pc>>
    /\ UNCHANGED <<mvars, rvars, bvars, kvars>>

\* line 247: return score
score_similarity_return ==
    /\ s_pc = "loop"
    /\ sc_i = Len(sc_input)
    /\ s_pc' = "done"
    /\ UNCHANGED <<sc_input, sc_reference, sc_i, sc_score, sc_angle>>
    /\ UNCHANGED <<mvars, rvars, bvars, kvars>>

NextScore ==
    \/ score_similarity_stroke
    \/ score_similarity_return

SpecScore == InitScore /\ [][NextScore]_vars

\* Consistency of the model: the function and the step-by-step run agree.
ModelScoreAgrees ==
    s_pc = "done" => sc_score = score_similarity(sc_input, sc_reference)

\* C8: the score of a sequence against itself is 0, the score of two
\* sequences of the same length is never positive (at return and after
\* every stroke), and the vector [0,0,10,0,10,10,0,10,64,5] scores 0 against
\* itself.
C8_SelfScoreIsMaximum ==
    /\ sc_score <= 0
    /\ (s_pc = "done" /\ sc_input = sc_reference) => sc_score = 0
    /\ (s_pc = "done" /\ sc_input = <<ExampleVec>> /\ sc_reference = <<ExampleVec>>)
          => sc_score = 0

\* C8 witness: the example vector was scored against itself, with result 0.
C8_Witness ==
    /\ s_pc = "done"
    /\ sc_input = <<ExampleVec>>
    /\ sc_reference = <<ExampleVec>>
    /\ sc_score = 0

\* the least number of unit steps around the circle of 256 codes from one
\* code to the other, in either direction
CircularDistance(a, b) ==
    SetMin({ d \in 0..NUM_POSSIBLE_ENCODED_VALUE :
               \/ (a + d) % NUM_POSSIBLE_ENCODED_VALUE = b
               \/ (b + d) % NUM_POSSIBLE_ENCODED_VALUE = a })

\* C9: for angle codes a, b in [0,256) the angle term of a stroke pair is
\* the circular distance of a and b, lies in [0,128], is the same with a and
\* b exchanged, and is 1 for the codes 0 and 255.
C9_AngleOf(seq) == seq[sc_i][2 * NUM_ENCODED_POINTS + 1]
C9_AngleWraparound ==
    (sc_i >= 1 /\ C9_AngleOf(sc_input) \in AngleCodes /\ C9_AngleOf(sc_reference) \in AngleCodes) =>
        /\ sc_angle = CircularDistance(C9_AngleOf(sc_input), C9_AngleOf(sc_reference))
        /\ sc_angle \in 0..(NUM_POSSIBLE_ENCODED_VALUE \div 2)
        /\ sc_angle = angle_similarity(C9_AngleOf(sc_reference), C9_AngleOf(sc_input))
        /\ ({C9_AngleOf(sc_input), C9_AngleOf(sc_reference)} = {0, 255} => sc_angle = 1)

\* C9 witness: a stroke with angle code 0 was scored against one with angle
\* code 255 and the angle term was 1.
C9_Witness ==
    /\ s_pc = "done"
    /\ Len(sc_input) = 1
    /\ C9_AngleOf(sc_input) = 0
    /\ C9_AngleOf(sc_reference) = 255
    /\ sc_angle = 1

----------------------------------------------------------------------------
(* Properties of the matcher *)

\* the query the scan compares with, and its result when the call is over
Returned == m_pc = "done"
EmptyQuery ==
    \/ op = "match_preprocessed" /\ strokes_processed = <<>>
    \/ op = "match_strokes" /\ strokes = <<>>

\* database positions with the stroke count of the query
SameCount(query) == { i \in 1..Len(medians) : Len(medians[i].vecs) = Len(query) }
ScoreOf(query, i) == score_similarity(query, medians[i].vecs)

NonIncreasing(scs) == \A a \in 1..Len(scs) : \A b \in a..Len(scs) : scs[a] >= scs[b]

\* C1: in every state of match_strokes and match_preprocessed (so after each
\* database entry, and at return) the candidate list has at most k entries,
\* the score list is parallel to it and is non-increasing from first to last.
C1_TopKBoundedSorted ==
    /\ Len(candidates) <= how_many_candidates
    /\ Len(scores) = Len(candidates)
    /\ NonIncreasing(scores)

\* C1 witness: a full list of two different scores after a third, scored
\* entry was dropped or refused.
C1_Witness ==
    /\ Returned
    /\ how_many_candidates = 2
    /\ Len(candidates) = 2
    /\ scores[1] > scores[2]
    /\ Cardinality(scored) = 3

\* the number of strokes of the query
QueryLen == IF op = "match_strokes" THEN Len(strokes) ELSE Len(strokes_processed)
\* the database positions with that number of feature vectors
QuerySameCount == { i \in 1..Len(medians) : Len(medians[i].vecs) = QueryLen }
\* a raw query with an empty stroke, which is not a stroke list
MalformedQuery == op = "match_strokes" /\ \E i \in 1..Len(strokes) : strokes[i] = <<>>

\* C2: for a query of N >= 1 strokes, an entry whose feature-vector count
\* differs from N is never passed to score_similarity and never enters the
\* result; if no entry has N vectors the result is empty; and the call does
\* not fail.
C2_StrokeCountFilter ==
    (op \in {"match_strokes", "match_preprocessed"} /\ QueryLen >= 1 /\ ~MalformedQuery) =>
        /\ scored \subseteq QuerySameCount
        /\ \A a \in 1..Len(cand_pos) :
              /\ cand_pos[a] \in scored
              /\ candidates[a] = medians[cand_pos[a]].id
        /\ Len(cand_pos) = Len(candidates)
        /\ (QuerySameCount = {} => candidates = <<>>)
        /\ m_pc # "panic"
        /\ idx \in 0..Len(medians)
        /\ (m_pc = "scan" => Len(strokes_processed) = QueryLen)

\* C2 witness: a 1-stroke query was run over a database that holds a
\* 2-stroke entry and a 1-stroke entry; only the latter was scored.
C2_Witness ==
    /\ Returned
    /\ Len(strokes_processed) = 1
    /\ how_many_candidates = 2
    /\ Len(medians) = 2
    /\ Len(medians[1].vecs) = 2
    /\ Len(medians[2].vecs) = 1
    /\ scored = {2}
    /\ cand_pos = <<2>>

\* an entry the query is a copy of
SelfEntries == { j \in 1..Len(medians) : medians[j].vecs = strokes_processed }
\* the first entry in scan order that scores 0 against the query
ZeroScorers == { i \in SameCount(strokes_processed) : ScoreOf(strokes_processed, i) = 0 }

\* C3 as stated: match_preprocessed(vectors of entry j, k >= 1) returns a
\* non-empty list whose first element is the id of entry j (stated here for
\* the entries that have strokes: it fails on those already).
C3_SelfIdentityAsStated ==
    (Returned /\ op = "match_preprocessed" /\ how_many_candidates >= 1
       /\ strokes_processed # <<>>) =>
        \A j \in SelfEntries : candidates # <<>> /\ candidates[1] = medians[j].id

\* C3 amended: for an entry j with at least one feature vector and k >= 1 the
\* result is non-empty and its first element is the id of the first entry in
\* scan order that scores 0 against the query; that is entry j's own id
\* unless an earlier entry scores 0 against it under another id.
C3_SelfIdentityFirstZeroScorer ==
    (Returned /\ op = "match_preprocessed" /\ how_many_candidates >= 1
       /\ strokes_processed # <<>> /\ SelfEntries # {}) =>
        /\ candidates # <<>>
        /\ scores[1] = 0
        /\ cand_pos[1] = SetMin(ZeroScorers)
        /\ candidates[1] = medians[SetMin(ZeroScorers)].id
        /\ \A j \in SelfEntries :
              (\A i \in ZeroScorers : i < j => medians[i].id = medians[j].id)
                 => candidates[1] = medians[j].id

\* C3 witness: the query is a copy of the third entry, which comes after two
\* entries that score lower, and is returned first.
C3_Witness ==
    /\ Returned
    /\ op = "match_preprocessed"
    /\ how_many_candidates = 1
    /\ Len(medians) = 3
    /\ SelfEntries = {3}
    /\ scored = {1, 2, 3}
    /\ candidates = <<medians[3].id>>
    /\ medians[1].id # medians[3].id

\* C4: (a) entries of the list with equal scores are in scan order; (b) a
\* newly scored entry moves ahead only of entries with strictly lower
\* scores; (c) an entry that ties with the last of a full list is not
\* inserted.
C4_Scanning == m_pc = "scan" /\ idx < Len(medians) /\ idx + 1 \in SameCount(strokes_processed)
C4_NewScore == ScoreOf(strokes_processed, idx + 1)
C4_TieStability ==
    [][ /\ \A a \in 1..Len(cand_pos') : \A b \in (a + 1)..Len(cand_pos') :
              scores'[a] = scores'[b] => cand_pos'[a] < cand_pos'[b]
        /\ C4_Scanning =>
              /\ \A a \in 1..Len(cand_pos') : \A b \in (a + 1)..Len(cand_pos') :
                    (cand_pos'[a] = idx + 1) => scores'[b] < C4_NewScore
              /\ ( /\ how_many_candidates > 0
                   /\ Len(scores) = how_many_candidates
                   /\ scores[Len(scores)] = C4_NewScore )
                    => candidates' = candidates /\ scores' = scores
      ]_vars

\* C4 witness: three entries with equal scores and a list of two: the first
\* two are returned in scan order, the third was not inserted.
C4_Witness ==
    /\ Returned
    /\ how_many_candidates = 2
    /\ scored = {1, 2, 3}
    /\ ScoreOf(strokes_processed, 3) = scores[2]
    /\ scores[1] = scores[2]
    /\ cand_pos = <<1, 2>>
    /\ medians[1].id # medians[2].id

\* number of same-count entries ranked before entry i by a stable sort on
\* descending score
RankOf(query, i) ==
    Cardinality({ j \in SameCount(query) :
                    \/ ScoreOf(query, j) > ScoreOf(query, i)
                    \/ ScoreOf(query, j) = ScoreOf(query, i) /\ j < i })

C6_EmptyQuery ==
    EmptyQuery =>
        /\ m_pc \in {"start", "done"}
        /\ candidates = <<>>
        /\ scored = {}
        /\ preprocess_calls = 0

\* C6 witness: match_preprocessed returned on an empty query although the
\* database holds an entry with no stroke and k > 0.
C6_Witness ==
    /\ Returned
    /\ op = "match_preprocessed"
    /\ strokes_processed = <<>>
    /\ how_many_candidates > 0
    /\ \E i \in 1..Len(medians) : medians[i].vecs = <<>>

\* C13: on a non-empty list of non-empty strokes Matcher::preprocess returns
\* one feature vector per stroke, in the order of the strokes, each of 10
\* values, the first 8 of which (the 4 sampled points) lie in [0, 255].
C13_FeatureVectorsInRange ==
    (op = "preprocess" /\ m_pc = "done") =>
        /\ Len(strokes_processed) = Len(strokes)
        /\ \A i \in 1..Len(strokes_processed) :
              /\ strokes_processed[i] = encode_stroke(strokes[i], aabb_after)
              /\ Len(strokes_processed[i]) = 2 * NUM_ENCODED_POINTS + 2
              /\ \A c \in 1..(2 * NUM_ENCODED_POINTS) :
                    strokes_processed[i][c] \in 0..(NUM_POSSIBLE_ENCODED_VALUE - 1)

\* a call that violates the caller contract: preprocess on the empty list,
\* or preprocess or match_strokes on a list that holds an empty stroke
C14_ContractViolation ==
    \/ op = "preprocess" /\ strokes = <<>>
    \/ op \in {"preprocess", "match_strokes"} /\ \E i \in 1..Len(strokes) : strokes[i] = <<>>

\* C14: such a call panics at its first step, and whatever it has done no
\* box was computed, no stroke was projected and encoded, no entry was
\* scored, no candidate was listed, and it has not returned.
C14_ContractViolationPanics ==
    [][ C14_ContractViolation =>
           /\ m_pc = "start" => m_pc' = "panic"
           /\ m_pc' \in {"start", "panic"}
           /\ boxed' = FALSE
           /\ strokes_processed' = <<>>
           /\ scored' = {}
           /\ candidates' = <<>>
      ]_vars

\* C14 witness: match_strokes has panicked on a list whose second stroke is
\* empty, on a database with an entry of two strokes and k > 0.
C14_Witness ==
    /\ op = "match_strokes"
    /\ m_pc = "panic"
    /\ Len(strokes) = 2
    /\ strokes[1] # <<>>
    /\ strokes[2] = <<>>
    /\ how_many_candidates > 0
    /\ \E i \in 1..Len(medians) : Len(medians[i].vecs) = 2

\* a non-empty query of non-empty strokes
C20_WellFormed(strks) == strks # <<>> /\ \A i \in 1..Len(strks) : strks[i] # <<>>

\* C20: on a non-empty query of non-empty strokes, match_strokes(strokes, k)
\* returns what match_preprocessed(preprocess(strokes), k) returns (the
\* function match_preprocessed being what the call match_preprocessed
\* returns), and no step of either call changes the matcher's database or
\* its configuration.
C20_SameRanking ==
    [][ /\ medians' = medians
        /\ params' = params
        /\ (op = "match_strokes" /\ m_pc' = "done" /\ C20_WellFormed(strokes)) =>
               candidates' = match_preprocessed(preprocess_strokes(strokes, params),
                                                how_many_candidates)
        /\ (op = "match_preprocessed" /\ m_pc' = "done") =>
               candidates' = match_preprocessed(strokes_processed, how_many_candidates)
      ]_vars

\* C20 witness: match_strokes has returned two candidates for a query of
\* two strokes from a database that also holds a character of one stroke
C20_Witness ==
    /\ op = "match_strokes"
    /\ m_pc = "done"
    /\ Len(strokes) = 2
    /\ C20_WellFormed(strokes)
    /\ Len(candidates) = 2
    /\ \E i \in 1..Len(medians) : Len(medians[i].vecs) = 1

----------------------------------------------------------------------------
(* The request protocol of the service (under SpecSocket and FairSocket) *)

\* the tab-separated fields of a request line, without its line end
C15_Fields(l) == split(IF l # <<>> /\ l[Len(l)] = NEWLINE THEN Pop(l) ELSE l, TAB)

\* a stroke field is well formed when it is a list of an even number of numbers
C15_StrokeFieldOk(f) ==
    LET pieces == split(f, COMMA)
    IN  /\ \A i \in 1..Len(pieces) : parse_ok(pieces[i])
        /\ Len(pieces) % 2 = 0

\* odd coordinate count, non-numeric field, or fewer than one stroke field
C15_Malformed(l) ==
    LET fields == C15_Fields(l)
    IN  \/ Len(fields) < 3
        \/ \E j \in 1..Len(fields) :
              IF j <= 2 THEN ~parse_ok(fields[j]) ELSE ~C15_StrokeFieldOk(fields[j])

\* C15: handle_client answers every malformed request line by writing an
\* ERROR response line, and never by panicking, by writing a candidate list
\* or by writing nothing.
C15_MalformedGetsError ==
    (k_pc \in {"returned", "crashed"} /\ C15_Malformed(line)) =>
        /\ k_pc = "returned"
        /\ response \in {<<ERROR_FORMAT>>, <<ERROR_COORDS>>}

\* C16: no request stops the accept loop of start, and every connection
\* made to the service is eventually handled (handle_client has returned
\* for it and the loop has gone on).
C16_ServiceContinues ==
    /\ [](k_pc # "crashed")
    /\ \A n \in 1..MaxConn : (connected >= n) ~> (Len(log) >= n)

\* two request lines that differ at most in their first two fields
C17_SameStrokeFields(l1, l2) ==
    LET f1 == C15_Fields(l1)
        f2 == C15_Fields(l2)
    IN  /\ Len(f1) >= 2
        /\ Len(f1) = Len(f2)
        /\ SubSeq(f1, 3, Len(f1)) = SubSeq(f2, 3, Len(f2))

\* C17: two request lines that differ only in their first two fields get
\* the same response from handle_client.
C17_SizingFieldsIgnored ==
    \A i, j \in 1..Len(log) :
        C17_SameStrokeFields(log[i].line, log[j].line) => log[i].response = log[j].response

====
